---- MODULE Spec2Model ----
(***************************************************************************)
(* Model of the LoL-Coach frontend hooks.                                  *)
(*                                                                         *)
(*   useDraft            frontend/hooks/useDraft.ts                        *)
(*   useRecommendations  frontend/hooks/useChampions.ts (backend version   *)
(*                       and the earlier mock-backend version)             *)
(*                                                                         *)
(* JavaScript arrays are sequences (slot i of the code is element i+1),    *)
(* null is the string Null, an optional object is a sequence of length 0   *)
(* or 1.                                                                   *)
(***************************************************************************)
EXTENDS Integers, Sequences, FiniteSets, TLC

VARIABLES
    draft,            \* useDraft: DraftState
    selectorContext,  \* useDraft: <<>> (null) or <<[idx, destination]>>
    recommendations,  \* useRecommendations: Recommendation[]
    loading,          \* useRecommendations: boolean
    error,            \* useRecommendations: string | null
    inflight,         \* handlePredict calls that have not settled yet
    setDraftCalls,    \* number of setDraft calls made by handlePredict
    championList,     \* useChampions: Champion[] handed to useRecommendations
    championsReq,     \* useChampions: the champion.json request
    systemStatus,     \* useSystemStatus: 'ONLINE' | 'OFFLINE'
    version,          \* useSystemStatus: version string, <<"v", x>> for `v${x}`
    healthReq,        \* useSystemStatus: the /health request
    versionReq,       \* useSystemStatus: the /version request
    disabledIds,      \* ChampionSelector: prop disabledIds
    search,           \* ChampionSelector: state search, a sequence of characters
    onSelectCalls,    \* ChampionSelector: arguments onSelect was called with
    store,            \* ArtifactStore: the set of persisted artifacts
    active,           \* ModelRegistry: the active artifact, <<>> while Empty
    readers,          \* InferenceEngine: the recommend calls, by caller
    putResult         \* ArtifactStore: outcome of the latest put

vars == <<draft, selectorContext, recommendations, loading, error,
          inflight, setDraftCalls, championList, championsReq,
          systemStatus, version, healthReq, versionReq,
          disabledIds, search, onSelectCalls,
          store, active, readers, putResult>>

draftVars == <<draft, selectorContext>>
recVars == <<recommendations, loading, error, inflight, setDraftCalls>>
statusVars == <<systemStatus, version, healthReq, versionReq>>
selectorVars == <<disabledIds, search, onSelectCalls>>
registryVars == <<store, active, readers, putResult>>

\* what the hooks useDraft and useRecommendations never touch
restVars == <<championsReq, statusVars, selectorVars, registryVars>>

----------------------------------------------------------------------------
(* Bounds *)

\* largest number of filled slots of a draft
MaxFilled == 2

\* largest number of handlePredict calls in flight at once
MaxInflight == 2

----------------------------------------------------------------------------
(* Values *)

Null == "null"

\* Array(5) in the initial DraftState
NumSlots == 5

\* export const ROLES / the literal in handlePredict
ROLES == <<"TOP", "JUNGLE", "MID", "ADC", "SUPPORT">>

Roles == {ROLES[i] : i \in 1..Len(ROLES)}

Destinations == {"ally", "enemy", "allyBan", "enemyBan"}

Sides == {"blue", "red"}

SlotTypes == {"pick", "ban"}

\* champion ids a user can pick in the selector
ChampIds == {"Ahri", "Zed"}

\* what ChampionSelector can hand to onSelect: a champion id or '' (None)
SelectInputs == ChampIds \cup {""}

\* slot indices clicked: first, middle and last of the five slots that
\* TeamColumn renders for picks and for bans
SlotIndices == {0, 2, NumSlots - 1}

Min(a, b) == IF a <= b THEN a ELSE b

----------------------------------------------------------------------------
(* JavaScript array helpers *)

\* a slice that also takes the element at end
SliceInclusive(s, start, end) == SubSeq(s, Min(start, Len(s)) + 1, Min(end + 1, Len(s)))

\* Array.prototype.slice(start, end) for 0 <= start, 0 <= end
Slice(s, start, end) == SubSeq(s, Min(start, Len(s)) + 1, Min(end, Len(s)))

\* Array.prototype.slice(start) for 0 <= start
SliceFrom(s, start) == SubSeq(s, Min(start, Len(s)) + 1, Len(s))

\* Array.prototype.indexOf: 0-based position of the first match, or -1
IndexOf(s, x) ==
    IF \E i \in 1..Len(s) : s[i] = x
    THEN (CHOOSE i \in 1..Len(s) : s[i] = x /\ \A j \in 1..(i - 1) : s[j] # x) - 1
    ELSE -1

\* arr[i] of JavaScript: undefined (never equal to null) off the end
\* is reported as the string "undefined"
At(s, i) == IF i >= 0 /\ i < Len(s) THEN s[i + 1] ELSE "undefined"

\* [...s.slice(0, idx), v, ...s.slice(idx + 1)]
ReplaceSlotKeepsOld(s, idx, v) == Slice(s, 0, idx) \o <<v>> \o SliceFrom(s, idx)

ReplaceSlot(s, idx, v) == Slice(s, 0, idx) \o <<v>> \o SliceFrom(s, idx + 1)

----------------------------------------------------------------------------
(* useDraft *)

EmptySlots == [i \in 1..NumSlots |-> Null]

InitialTargetRoleMid == "MID"

InitialTargetRole == "TOP"

InitialDraft ==
    [allies     |-> EmptySlots,
     enemies    |-> EmptySlots,
     allyBans   |-> EmptySlots,
     enemyBans  |-> EmptySlots,
     targetRole |-> InitialTargetRole]

NoContext == <<>>

SlotDestinationSwappedBans(side, type) ==
    IF type = "ban"
    THEN (IF side = "blue" THEN "enemyBan" ELSE "allyBan")
    ELSE (IF side = "blue" THEN "ally" ELSE "enemy")

\* dest of handleSlotClick
SlotDestination(side, type) ==
    IF type = "ban"
    THEN (IF side = "blue" THEN "allyBan" ELSE "enemyBan")
    ELSE (IF side = "blue" THEN "ally" ELSE "enemy")

ValueToSetKeepsEmpty(champId) == champId

\* valueToSet of handleSelect
ValueToSet(champId) == IF champId = "" THEN Null ELSE champId

\* an updater that refuses a champion the draft already holds
SelectUpdaterUnique(prev, idx, destination, valueToSet) ==
    IF /\ valueToSet # Null
       /\ \E i \in 1..NumSlots :
            valueToSet \in {prev.allies[i], prev.enemies[i],
                            prev.allyBans[i], prev.enemyBans[i]}
    THEN prev
    ELSE [prev EXCEPT
            !.allies    = IF destination = "ally"
                          THEN ReplaceSlot(@, idx, valueToSet) ELSE @,
            !.enemies   = IF destination = "enemy"
                          THEN ReplaceSlot(@, idx, valueToSet) ELSE @,
            !.allyBans  = IF destination = "allyBan"
                          THEN ReplaceSlot(@, idx, valueToSet) ELSE @,
            !.enemyBans = IF destination = "enemyBan"
                          THEN ReplaceSlot(@, idx, valueToSet) ELSE @]

\* the updater handleSelect passes to setDraft
SelectUpdater(prev, idx, destination, valueToSet) ==
    [prev EXCEPT
        !.allies    = IF destination = "ally"
                      THEN ReplaceSlot(@, idx, valueToSet) ELSE @,
        !.enemies   = IF destination = "enemy"
                      THEN ReplaceSlot(@, idx, valueToSet) ELSE @,
        !.allyBans  = IF destination = "allyBan"
                      THEN ReplaceSlot(@, idx, valueToSet) ELSE @,
        !.enemyBans = IF destination = "enemyBan"
                      THEN ReplaceSlot(@, idx, valueToSet) ELSE @]

HandleSlotClick(index, side, type) ==
    /\ selectorContext' = <<[idx |-> index, destination |-> SlotDestination(side, type)]>>
    /\ UNCHANGED <<draft, recVars, championList, restVars>>

\* handleSelect without the early return: a missing context selects into
\* the first ally slot
HandleSelectDefaultSlot(champId) ==
    LET ctx == IF selectorContext = NoContext
               THEN [idx |-> 0, destination |-> "ally"]
               ELSE selectorContext[1]
    IN /\ draft' = SelectUpdater(draft, ctx.idx, ctx.destination, ValueToSet(champId))
       /\ selectorContext' = NoContext
       /\ UNCHANGED <<recVars, championList, restVars>>

HandleSelect(champId) ==
    IF selectorContext = NoContext
    THEN UNCHANGED vars
    ELSE /\ draft' = SelectUpdater(draft, selectorContext[1].idx,
                                   selectorContext[1].destination,
                                   ValueToSet(champId))
         /\ selectorContext' = NoContext
         /\ UNCHANGED <<recVars, championList, restVars>>

\* setTargetRole that also empties the ally slot of the new role
SetTargetRoleClearsSlot(role) ==
    /\ draft' = [draft EXCEPT !.targetRole = role,
                              !.allies = ReplaceSlot(@, IndexOf(ROLES, role), Null)]
    /\ UNCHANGED <<selectorContext, recVars, championList, restVars>>

SetTargetRole(role) ==
    /\ draft' = [draft EXCEPT !.targetRole = role]
    /\ UNCHANGED <<selectorContext, recVars, championList, restVars>>

CloseSelector ==
    /\ selectorContext' = NoContext
    /\ UNCHANGED <<draft, recVars, championList, restVars>>

\* number of non-null slots of a draft
FilledIn(s) == Cardinality({i \in 1..Len(s) : s[i] # Null})

FilledCount(d) ==
    FilledIn(d.allies) + FilledIn(d.enemies) + FilledIn(d.allyBans) + FilledIn(d.enemyBans)

----------------------------------------------------------------------------
(* useRecommendations: state after construction *)

InitialRecommendations == <<>>

InitialLoading == FALSE

InitialError == Null

\* useState<Champion[]>([]) of useChampions
InitialChampionList == <<>>

RecInit ==
    /\ recommendations = InitialRecommendations
    /\ loading = InitialLoading
    /\ error = InitialError
    /\ inflight = <<>>
    /\ setDraftCalls = 0

\* useState<'ONLINE' | 'OFFLINE'>('OFFLINE') of useSystemStatus
InitialSystemStatus == "OFFLINE"

\* useState('v0.0.0') of useSystemStatus; `v${x}` is the pair <<"v", x>>
InitialVersion == <<"v", "0.0.0">>

\* a request of a mount effect that has not run yet; a request is a record
\* with its stage and, once response.json() has resolved, the body received
Unsent == [stage |-> "unsent"]

\* the initial state of everything besides useDraft, useRecommendations
\* and useChampions: useSystemStatus before its effect, a ChampionSelector
\* with the given taken ids that nobody has typed into or clicked, and a
\* backend with an empty store, an Empty registry and the given callers
RestInit(ids, callers) ==
    /\ systemStatus = InitialSystemStatus
    /\ version = InitialVersion
    /\ healthReq = Unsent
    /\ versionReq = Unsent
    /\ disabledIds = ids
    /\ search = <<>>
    /\ onSelectCalls = <<>>
    /\ store = {}
    /\ active = <<>>
    /\ readers = callers
    /\ putResult = Null

\* the parts of the page a specification of one hook leaves idle
RestIdle == RestInit({}, <<>>)

----------------------------------------------------------------------------
(* Specification of useDraft on a freshly mounted page *)

Init ==
    /\ draft = InitialDraft
    /\ selectorContext = NoContext
    /\ RecInit
    /\ championList = InitialChampionList
    /\ championsReq = Unsent
    /\ RestIdle

SlotClickStep ==
    \E index \in SlotIndices, side \in Sides, type \in SlotTypes :
        HandleSlotClick(index, side, type)

SelectStep ==
    \E champId \in SelectInputs :
        /\ HandleSelect(champId)
        /\ FilledCount(draft') <= MaxFilled

TargetRoleStep == \E role \in Roles : SetTargetRole(role)

Next ==
    \/ SlotClickStep
    \/ SelectStep
    \/ TargetRoleStep
    \/ CloseSelector

Spec == Init /\ [][Next]_vars

----------------------------------------------------------------------------
(* useRecommendations: helpers of handlePredict *)

\* !!c of the filter callbacks: null, undefined and '' are dropped
Truthy(c) == c # Null /\ c # "" /\ c # "undefined"

\* arr.filter(c => !!c)
RECURSIVE FilterTruthy(_)
FilterTruthy(s) ==
    IF s = <<>> THEN <<>>
    ELSE (IF Truthy(Head(s)) THEN <<Head(s)>> ELSE <<>>) \o FilterTruthy(Tail(s))

\* arr[i] = v on a copy of arr
SetAt(s, i, v) ==
    IF i < 0 THEN s
    ELSE IF i < Len(s) THEN [s EXCEPT ![i + 1] = v]
    ELSE s \o [j \in 1..(i - Len(s)) |-> "undefined"] \o <<v>>

\* roleIndex
RoleIndex(d) == IndexOf(ROLES, d.targetRole)

\* isRoleFilled
IsRoleFilled(d) == At(d.allies, RoleIndex(d)) # Null

\* currentAllies once the if (isRoleFilled) block has run
CurrentAlliesKeepsRole(d) == d.allies

CurrentAllies(d) ==
    IF IsRoleFilled(d) THEN SetAt(d.allies, RoleIndex(d), Null) ELSE d.allies

\* an updater that empties the whole ally list
ClearRoleUpdaterClearsAllies(prev, roleIndex) ==
    [prev EXCEPT !.allies = [i \in 1..Len(@) |-> Null]]

\* the updater handlePredict passes to setDraft
ClearRoleUpdater(prev, roleIndex) ==
    [prev EXCEPT !.allies = SetAt(@, roleIndex, Null)]

\* top_k of the request body
TopK == 10

\* the request body with the enemy bans listed first
PredictBodyEnemyBansFirst(d, currentAllies) ==
    [role    |-> d.targetRole,
     allies  |-> FilterTruthy(currentAllies),
     enemies |-> FilterTruthy(d.enemies),
     bans    |-> FilterTruthy(d.enemyBans \o d.allyBans),
     top_k   |-> TopK]

\* the object handed to JSON.stringify
PredictBody(d, currentAllies) ==
    [role    |-> d.targetRole,
     allies  |-> FilterTruthy(currentAllies),
     enemies |-> FilterTruthy(d.enemies),
     bans    |-> FilterTruthy(d.allyBans \o d.enemyBans),
     top_k   |-> TopK]

ErrorMessage == "Failed to get recommendations"

DefaultReason == "Recommended based on draft state"

\* championList.find(c => c.id === id), as a sequence of length 0 or 1
Find(list, id) ==
    IF \E i \in 1..Len(list) : list[i].id = id
    THEN <<list[CHOOSE i \in 1..Len(list) :
                    list[i].id = id /\ \A j \in 1..(i - 1) : list[j].id # id]>>
    ELSE <<>>

\* the thousandths whose double, multiplied by 100, lands just below the
\* half: 0.145 * 100 is 14.499999999999998, and likewise for the others
BelowHalf == {145, 285, 565, 575}

\* Math.floor(r.score * 100)
RoundPercentTruncates(scoreMilli) == scoreMilli \div 10

\* Math.round(r.score * 100) for a score given in thousandths: the nearest
\* integer of the double product, a half going up
RoundPercent(scoreMilli) ==
    IF scoreMilli \in BelowHalf
    THEN scoreMilli \div 10
    ELSE (scoreMilli + 5) \div 10

\* the callback without the lookup in championList
MapRecommendationNameIsId(r, list) ==
    [championId    |-> r.champion,
     championName  |-> r.champion,
     score         |-> RoundPercent(r.score),
     primaryReason |-> IF "reasons" \in DOMAIN r /\ Len(r.reasons) > 0
                       THEN r.reasons[1] ELSE DefaultReason]

\* the callback of data.recommendations.map
MapRecommendation(r, list) ==
    [championId    |-> r.champion,
     championName  |-> IF Find(list, r.champion) # <<>>
                       THEN Find(list, r.champion)[1].name ELSE r.champion,
     score         |-> RoundPercent(r.score),
     primaryReason |-> IF "reasons" \in DOMAIN r /\ Len(r.reasons) > 0
                       THEN r.reasons[1] ELSE DefaultReason]

MapRecommendations(recs, list) ==
    [i \in 1..Len(recs) |-> MapRecommendation(recs[i], list)]

\* s without its i-th element
RemoveAt(s, i) == SubSeq(s, 1, i - 1) \o SubSeq(s, i + 1, Len(s))

----------------------------------------------------------------------------
(* useRecommendations against the backend                                 *)
(*                                                                         *)
(* handlePredict runs up to its first await in one step; the draft and the *)
(* championList it closes over are the rendered ones, i.e. the current     *)
(* ones, and the call keeps that championList until it settles.  Each await *)
(* that follows is a stage of the call in inflight, and the code behind    *)
(* the last await runs, with catch and finally, in the step that settles   *)
(* it.                                                                     *)

\* a handlePredict that aborts the calls still pending
HandlePredictAbortsPending ==
    /\ draft' = IF IsRoleFilled(draft)
                THEN ClearRoleUpdater(draft, RoleIndex(draft)) ELSE draft
    /\ setDraftCalls' = IF IsRoleFilled(draft) THEN setDraftCalls + 1 ELSE setDraftCalls
    /\ loading' = TRUE
    /\ error' = Null
    /\ inflight' = <<[stage        |-> "fetch",
                      body         |-> PredictBody(draft, CurrentAllies(draft)),
                      championList |-> championList]>>
    /\ UNCHANGED <<selectorContext, recommendations, championList, restVars>>

HandlePredict ==
    /\ draft' = IF IsRoleFilled(draft)
                THEN ClearRoleUpdater(draft, RoleIndex(draft)) ELSE draft
    /\ setDraftCalls' = IF IsRoleFilled(draft) THEN setDraftCalls + 1 ELSE setDraftCalls
    /\ loading' = TRUE
    /\ error' = Null
    /\ inflight' = Append(inflight,
                          [stage        |-> "fetch",
                           body         |-> PredictBody(draft, CurrentAllies(draft)),
                           championList |-> championList])
    /\ UNCHANGED <<selectorContext, recommendations, championList, restVars>>

\* catch block followed by finally, but the recommendations are dropped
FailCallClearsRecommendations(i) ==
    /\ error' = ErrorMessage
    /\ loading' = FALSE
    /\ recommendations' = <<>>
    /\ inflight' = RemoveAt(inflight, i)
    /\ UNCHANGED <<draftVars, setDraftCalls, championList, restVars>>

\* catch block followed by finally
FailCall(i) ==
    /\ error' = ErrorMessage
    /\ loading' = FALSE
    /\ inflight' = RemoveAt(inflight, i)
    /\ UNCHANGED <<draftVars, recommendations, setDraftCalls, championList, restVars>>

\* await fetch(...) throws
FetchRejects(i) ==
    /\ i \in 1..Len(inflight)
    /\ inflight[i].stage = "fetch"
    /\ FailCall(i)

\* await fetch(...) yields a response; ok decides between text() and json()
FetchResolves(i, ok) ==
    /\ i \in 1..Len(inflight)
    /\ inflight[i].stage = "fetch"
    /\ inflight' = [inflight EXCEPT ![i].stage = IF ok THEN "json" ELSE "text"]
    /\ UNCHANGED <<draftVars, recommendations, loading, error, setDraftCalls,
                   championList, restVars>>

\* await response.text() settles (either way) and the Error is thrown
TextSettles(i) ==
    /\ i \in 1..Len(inflight)
    /\ inflight[i].stage = "text"
    /\ FailCall(i)

\* await response.json() throws
JsonRejects(i) ==
    /\ i \in 1..Len(inflight)
    /\ inflight[i].stage = "json"
    /\ FailCall(i)

\* the call ends although the spinner is left on
SucceedCallKeepsLoading(i, data) ==
    /\ recommendations' = MapRecommendations(data.recommendations,
                                             inflight[i].championList)
    /\ inflight' = RemoveAt(inflight, i)
    /\ UNCHANGED <<draftVars, loading, error, setDraftCalls, championList, restVars>>

\* setRecommendations(mappedRecs) followed by finally; the map callback
\* looks the names up in the championList the call closed over
SucceedCall(i, data) ==
    /\ recommendations' = MapRecommendations(data.recommendations,
                                             inflight[i].championList)
    /\ loading' = FALSE
    /\ inflight' = RemoveAt(inflight, i)
    /\ UNCHANGED <<draftVars, error, setDraftCalls, championList, restVars>>

\* a response handler that drops the champions the current draft holds
JsonResolvesDropsTaken(i, data) ==
    /\ i \in 1..Len(inflight)
    /\ inflight[i].stage = "json"
    /\ IF "recommendations" \in DOMAIN data
       THEN LET all   == draft.allies \o draft.enemies \o draft.allyBans \o draft.enemyBans
                taken == {all[k] : k \in 1..Len(all)}
            IN SucceedCall(i, [data EXCEPT !.recommendations =
                                  SelectSeq(@, LAMBDA r : r.champion \notin taken)])
       ELSE FailCall(i)

\* await response.json() yields data; data.recommendations.map throws a
\* TypeError when the field is missing
JsonResolves(i, data) ==
    /\ i \in 1..Len(inflight)
    /\ inflight[i].stage = "json"
    /\ IF "recommendations" \in DOMAIN data
       THEN SucceedCall(i, data)
       ELSE FailCall(i)

----------------------------------------------------------------------------
(* Inputs of useRecommendations *)

ImageBase == "https://ddragon.leagueoflegends.com/cdn/14.24.1/img/champion/"

\* a loaded champion list; MonkeyKing is a champion whose name is not its id
LoadedChampionList ==
    <<[id |-> "Ahri", name |-> "Ahri", image |-> <<ImageBase, "Ahri.png">>],
      [id |-> "Zed", name |-> "Zed", image |-> <<ImageBase, "Zed.png">>],
      [id |-> "MonkeyKing", name |-> "Wukong", image |-> <<ImageBase, "MonkeyKing.png">>]>>

ChampionLists == {InitialChampionList, LoadedChampionList}

\* recommendations of the backend; score in thousandths; Garen is unknown to
\* the champion list, the MonkeyKing entry has no reasons field
RecAhri == [champion |-> "Ahri", score |-> 850, reasons |-> <<"Synergy">>]

RecGaren == [champion |-> "Garen", score |-> 904, reasons |-> <<>>]

RecMonkeyKing == [champion |-> "MonkeyKing", score |-> 1000]

\* bodies response.json() can yield; the last one has no recommendations
ResponseBodies ==
    {[recommendations |-> <<>>],
     [recommendations |-> <<RecAhri>>],
     [recommendations |-> <<RecGaren, RecMonkeyKing, RecAhri>>],
     [detail |-> "Not Found"]}

\* what a user can place by one handleSlotClick and handleSelect
Placements == SlotIndices \X Destinations \X ChampIds

\* drafts useDraft reaches with at most k filled slots
RECURSIVE DraftsUpTo(_)
DraftsUpTo(k) ==
    IF k = 0 THEN {InitialDraft}
    ELSE LET smaller == DraftsUpTo(k - 1)
         IN smaller \cup
            {SelectUpdater(d, p[1], p[2], ValueToSet(p[3])) :
                d \in smaller, p \in Placements}

ReachableDrafts ==
    {[d EXCEPT !.targetRole = role] : d \in DraftsUpTo(MaxFilled), role \in Roles}

----------------------------------------------------------------------------
(* Specification of useRecommendations against the backend, for one call  *)
(* at a time: the Predict button is disabled while loading                 *)

InitRec ==
    /\ draft \in ReachableDrafts
    /\ selectorContext = NoContext
    /\ RecInit
    /\ championList \in ChampionLists
    /\ championsReq = [stage |-> IF championList = InitialChampionList
                                  THEN "logged" ELSE "done"]
    /\ RestIdle

PredictStep == ~loading /\ HandlePredict

FetchRejectsStep == \E i \in 1..Len(inflight) : FetchRejects(i)

FetchResolvesStep == \E i \in 1..Len(inflight), ok \in BOOLEAN : FetchResolves(i, ok)

TextSettlesStep == \E i \in 1..Len(inflight) : TextSettles(i)

JsonRejectsStep == \E i \in 1..Len(inflight) : JsonRejects(i)

JsonResolvesStep ==
    \E i \in 1..Len(inflight), data \in ResponseBodies : JsonResolves(i, data)

SettleStep ==
    \/ FetchRejectsStep
    \/ FetchResolvesStep
    \/ TextSettlesStep
    \/ JsonRejectsStep
    \/ JsonResolvesStep

NextRec ==
    \/ PredictStep
    \/ FetchRejectsStep
    \/ FetchResolvesStep
    \/ TextSettlesStep
    \/ JsonRejectsStep
    \/ JsonResolvesStep

SpecRec == InitRec /\ [][NextRec]_vars

\* every request settles
SpecRecFair == SpecRec /\ WF_vars(SettleStep)

----------------------------------------------------------------------------
(* useRecommendations with the mock backend (earlier version of the hook) *)

\* candidates.slice(0, 8)
MockTopN == 8

\* Math.floor(Math.random() * 30) + 70
MockScoreSpan == 30

MockScoreBase == 70

MockReason == "Great synergy with team composition"

\* the values of Math.floor(Math.random() * 30)
RandomDraws == 0..(MockScoreSpan - 1)

\* the set taken, from enemies and bans only
MockTakenWithoutAllies(call) ==
    {c \in {(call.enemies \o call.allyBans \o call.enemyBans)[i] :
                i \in 1..(3 * NumSlots)} : Truthy(c)}

\* new Set([...currentAllies, ...enemies, ...allyBans, ...enemyBans].filter(Boolean))
MockTaken(call) ==
    LET all == call.currentAllies \o call.enemies \o call.allyBans \o call.enemyBans
    IN {c \in {all[i] : i \in 1..Len(all)} : Truthy(c)}

\* championList.filter(c => !taken.has(c.id))
MockCandidates(list, taken) == SelectSeq(list, LAMBDA c : c.id \notin taken)

\* place r behind every entry of the sorted list whose score is not smaller
InsertByScore(sorted, r) ==
    LET ahead == Cardinality({i \in 1..Len(sorted) : sorted[i].score >= r.score})
    IN SubSeq(sorted, 1, ahead) \o <<r>> \o SubSeq(sorted, ahead + 1, Len(sorted))

\* recs.sort((a, b) => b.score - a.score), a stable sort
RECURSIVE SortByScoreDesc(_)
SortByScoreDesc(recs) ==
    IF recs = <<>> THEN <<>>
    ELSE InsertByScore(SortByScoreDesc(SubSeq(recs, 1, Len(recs) - 1)),
                       recs[Len(recs)])

\* the recs of the timer callback; draws[i] is the random draw of candidate i
MockRecommendations(list, taken, draws) ==
    LET candidates == Slice(MockCandidates(list, taken), 0, MockTopN)
    IN SortByScoreDesc(
        [i \in 1..Len(candidates) |->
            [championId    |-> candidates[i].id,
             championName  |-> candidates[i].name,
             score         |-> draws[i] + MockScoreBase,
             primaryReason |-> MockReason]])

HandlePredictMock ==
    /\ draft' = IF IsRoleFilled(draft)
                THEN ClearRoleUpdater(draft, RoleIndex(draft)) ELSE draft
    /\ setDraftCalls' = IF IsRoleFilled(draft) THEN setDraftCalls + 1 ELSE setDraftCalls
    /\ loading' = TRUE
    /\ inflight' = Append(inflight,
                          [stage         |-> "timer",
                           currentAllies |-> CurrentAllies(draft),
                           enemies       |-> draft.enemies,
                           allyBans      |-> draft.allyBans,
                           enemyBans     |-> draft.enemyBans,
                           championList  |-> championList])
    /\ UNCHANGED <<selectorContext, recommendations, error, championList, restVars>>

\* the setTimeout callback of call i runs
TimerFires(i, draws) ==
    /\ i \in 1..Len(inflight)
    /\ inflight[i].stage = "timer"
    /\ recommendations' = MockRecommendations(inflight[i].championList,
                                              MockTaken(inflight[i]), draws)
    /\ loading' = FALSE
    /\ inflight' = RemoveAt(inflight, i)
    /\ UNCHANGED <<draftVars, error, setDraftCalls, championList, restVars>>

----------------------------------------------------------------------------
(* Specification of the mock-backend useRecommendations, for one call at  *)
(* a time and until a call has stored recommendations                      *)

PredictMockStep == ~loading /\ HandlePredictMock

\* the callback draws one random number for each of the candidates it keeps
TimerFiresStep ==
    \E i \in 1..Len(inflight) :
        LET candidates == Slice(MockCandidates(inflight[i].championList,
                                               MockTaken(inflight[i])), 0, MockTopN)
        IN \E draws \in [1..Len(candidates) -> RandomDraws] : TimerFires(i, draws)

NextMock ==
    \/ recommendations = InitialRecommendations /\ PredictMockStep
    \/ TimerFiresStep

SpecMock == InitRec /\ [][NextMock]_vars

----------------------------------------------------------------------------
(* Claims about useDraft *)

\* the list of a draft that a destination names
ListOf(d, destination) ==
    CASE destination = "ally"     -> d.allies
      [] destination = "enemy"    -> d.enemies
      [] destination = "allyBan"  -> d.allyBans
      [] destination = "enemyBan" -> d.enemyBans

\* every slot of every list of d2 equals that of d1, except that slot idx of
\* the list named by destination holds v
OnlySlotChanged(d1, d2, idx, destination, v) ==
    /\ d2.targetRole = d1.targetRole
    /\ \A dest \in Destinations :
        /\ Len(ListOf(d2, dest)) = Len(ListOf(d1, dest))
        /\ \A i \in 0..(Len(ListOf(d1, dest)) - 1) :
            ListOf(d2, dest)[i + 1] =
                IF dest = destination /\ i = idx THEN v ELSE ListOf(d1, dest)[i + 1]

\* C1: with a selector open on (idx, destination), handleSelect of a
\* non-empty champion id stores it in exactly slot idx of the list the
\* destination names, closes the selector and changes no other slot and not
\* the target role.
C1_SelectStoresChampion ==
    [][\A champId \in ChampIds :
        (/\ selectorContext # NoContext
         /\ selectorContext[1].idx \in 0..4
         /\ HandleSelect(champId)) =>
            /\ selectorContext' = NoContext
            /\ OnlySlotChanged(draft, draft', selectorContext[1].idx,
                               selectorContext[1].destination, champId)]_vars

C1_Witness ==
    /\ selectorContext = NoContext
    /\ draft.allies[1] = "Ahri"
    /\ draft.enemyBans[1] = "Zed"

\* C7: handleSlotClick(index, side, type) opens the selector on index with
\* destination ally / enemy / allyBan / enemyBan for (blue, pick) /
\* (red, pick) / (blue, ban) / (red, ban), whatever was open before, and
\* leaves the draft unchanged.
C7_SlotClickOpensSelector ==
    [][\A index \in SlotIndices, side \in Sides, type \in SlotTypes :
        HandleSlotClick(index, side, type) =>
            /\ Len(selectorContext') = 1
            /\ selectorContext'[1].idx = index
            /\ selectorContext'[1].destination =
                (CASE side = "blue" /\ type = "pick" -> "ally"
                   [] side = "red"  /\ type = "pick" -> "enemy"
                   [] side = "blue" /\ type = "ban"  -> "allyBan"
                   [] side = "red"  /\ type = "ban"  -> "enemyBan")
            /\ draft' = draft]_vars

\* a selector opened on a red ban slot while another slot is already filled
C7_Witness ==
    /\ selectorContext = <<[idx |-> 0, destination |-> "enemyBan"]>>
    /\ draft.allies[3] = "Ahri"

\* C8: with no selector open handleSelect changes nothing, whatever the id.
C8_SelectWithoutContext ==
    [][\A champId \in SelectInputs :
        (selectorContext = NoContext /\ HandleSelect(champId)) =>
            (draft' = draft /\ selectorContext' = NoContext)]_vars

\* no selector open on a draft that already holds picks
C8_Witness ==
    /\ selectorContext = NoContext
    /\ draft.enemies[3] = "Zed"

\* the draft after selecting champId into the open slot and then resetting
\* the same slot
SelectThenReset(d, ctx, champId) ==
    SelectUpdater(SelectUpdater(d, ctx.idx, ctx.destination, ValueToSet(champId)),
                  ctx.idx, ctx.destination, ValueToSet(""))

\* C9 as stated: selecting a champion into the open slot and then resetting
\* that slot gives back the draft as it was before the selection.
C9_ResetRestoresDraft ==
    \A champId \in ChampIds :
        selectorContext # NoContext =>
            SelectThenReset(draft, selectorContext[1], champId) = draft

\* C9 amended: a reset of the open slot sets exactly that slot to null;
\* selecting and then resetting leaves the slot null and every other slot as
\* before, which is the draft before the selection when the slot was empty.
C9_ResetClearsSlot ==
    [][(selectorContext # NoContext /\ HandleSelect("")) =>
        /\ selectorContext' = NoContext
        /\ OnlySlotChanged(draft, draft', selectorContext[1].idx,
                           selectorContext[1].destination, Null)
        /\ \A champId \in ChampIds :
            /\ OnlySlotChanged(draft, SelectThenReset(draft, selectorContext[1], champId),
                               selectorContext[1].idx,
                               selectorContext[1].destination, Null)
            /\ (ListOf(draft, selectorContext[1].destination)[selectorContext[1].idx + 1] = Null
                    => SelectThenReset(draft, selectorContext[1], champId) = draft)]_vars

\* a selector open on a slot that holds a champion
C9_Witness ==
    /\ selectorContext = <<[idx |-> 0, destination |-> "ally"]>>
    /\ draft.allies[1] = "Ahri"

\* C10: right after construction the four lists have five null entries
\* each, the target role is TOP, no selector is open, and there are no
\* recommendations, no loading and no error.
C10_InitialState ==
    /\ \A dest \in Destinations :
        /\ Len(ListOf(draft, dest)) = 5
        /\ \A i \in 1..5 : ListOf(draft, dest)[i] = Null
    /\ draft.targetRole = "TOP"
    /\ selectorContext = <<>>
    /\ recommendations = <<>>
    /\ loading = FALSE
    /\ error = Null
    /\ [][TRUE]_vars

C10_Witness ==
    /\ draft = InitialDraft
    /\ selectorContext = NoContext
    /\ recommendations = <<>>
    /\ ~loading
    /\ error = Null

----------------------------------------------------------------------------
(* Claims about useRecommendations against the backend *)

\* position of a role among TOP, JUNGLE, MID, ADC, SUPPORT
RolePosition(role) ==
    CASE role = "TOP"     -> 0
      [] role = "JUNGLE"  -> 1
      [] role = "MID"     -> 2
      [] role = "ADC"     -> 3
      [] role = "SUPPORT" -> 4

\* the entries of s at the positions P, in slot order
KeptEntries(s, P) ==
    [k \in 1..Cardinality(P) |->
        s[CHOOSE i \in P : Cardinality({j \in P : j < i}) = k - 1]]

\* the non-null entries of s in slot order, leaving out the slots in skip
NonNullEntries(s, skip) ==
    KeptEntries(s, {i \in 1..Len(s) : i \notin skip /\ s[i] # Null})

\* the body of the request the latest handlePredict call has issued
LastBody(calls) == calls[Len(calls)].body

\* C2 as stated: a filled target-role slot is cleared through setDraft and
\* its champion is not among the allies sent; an empty one causes no
\* setDraft call.
C2_ClearedChampionNotSent ==
    [][HandlePredict =>
        LET slot == RolePosition(draft.targetRole) + 1
        IN IF draft.allies[slot] # Null
           THEN /\ setDraftCalls' = setDraftCalls + 1
                /\ draft'.allies[slot] = Null
                /\ \A k \in 1..Len(LastBody(inflight').allies) :
                       LastBody(inflight').allies[k] # draft.allies[slot]
           ELSE setDraftCalls' = setDraftCalls]_vars

\* C2 amended: a filled target-role slot is cleared through setDraft and the
\* allies sent are the non-null entries of the other four slots, so its
\* champion is sent only if it also fills another ally slot; an empty
\* target-role slot causes no setDraft call.
C2_ClearedSlotNotSent ==
    [][HandlePredict =>
        LET slot == RolePosition(draft.targetRole) + 1
        IN IF draft.allies[slot] # Null
           THEN /\ setDraftCalls' = setDraftCalls + 1
                /\ draft'.allies[slot] = Null
                /\ LastBody(inflight').allies = NonNullEntries(draft.allies, {slot})
                /\ (\E k \in 1..Len(LastBody(inflight').allies) :
                        LastBody(inflight').allies[k] = draft.allies[slot])
                   <=> (\E i \in 1..5 : i # slot /\ draft.allies[i] = draft.allies[slot])
           ELSE /\ setDraftCalls' = setDraftCalls
                /\ draft' = draft]_vars

\* a call that cleared the target role and still sent another ally
C2_Witness ==
    /\ Len(inflight) = 1
    /\ setDraftCalls = 1
    /\ draft.allies[RolePosition(draft.targetRole) + 1] = Null
    /\ Len(inflight[1].body.allies) = 1

\* C3 as stated: the body is {role, allies, enemies, bans, top_k} with the
\* non-null entries of draft.allies and draft.enemies in slot order, the
\* non-null ally bans followed by the non-null enemy bans, and top_k 10.
C3_BodyFromDraft ==
    [][HandlePredict =>
        LastBody(inflight') =
            [role    |-> draft.targetRole,
             allies  |-> NonNullEntries(draft.allies, {}),
             enemies |-> NonNullEntries(draft.enemies, {}),
             bans    |-> NonNullEntries(draft.allyBans, {})
                             \o NonNullEntries(draft.enemyBans, {}),
             top_k   |-> 10]]_vars

\* C3 amended: as C3, except that allies leaves out the entry of the
\* target-role slot; no null or empty entry is sent and allies and enemies
\* have at most five entries.
C3_BodyFromClearedDraft ==
    [][HandlePredict =>
        /\ LastBody(inflight') =
            [role    |-> draft.targetRole,
             allies  |-> NonNullEntries(draft.allies,
                                        {RolePosition(draft.targetRole) + 1}),
             enemies |-> NonNullEntries(draft.enemies, {}),
             bans    |-> NonNullEntries(draft.allyBans, {})
                             \o NonNullEntries(draft.enemyBans, {}),
             top_k   |-> 10]
        /\ Len(LastBody(inflight').allies) <= 5
        /\ Len(LastBody(inflight').enemies) <= 5
        /\ \A list \in {LastBody(inflight').allies, LastBody(inflight').enemies,
                        LastBody(inflight').bans} :
               \A k \in 1..Len(list) : list[k] \notin {Null, ""}]_vars

\* a request in flight that carries an ally ban followed by an enemy ban
C3_Witness ==
    /\ Len(inflight) = 1
    /\ inflight[1].stage = "fetch"
    /\ inflight[1].body.bans = <<"Zed", "Ahri">>
    /\ draft.allyBans[1] = "Zed"

\* C4: a call whose fetch throws, whose response is not ok, or whose parsing
\* throws ends with the fixed error message and loading false, and no step
\* of such a call changes recommendations; they change only when a call
\* succeeds.
C4_FailureKeepsRecommendations ==
    [][/\ \A i \in 1..Len(inflight) :
            (\/ FetchRejects(i)
             \/ TextSettles(i)
             \/ JsonRejects(i)
             \/ JsonResolves(i, [detail |-> "Not Found"]))
            => /\ error' = "Failed to get recommendations"
               /\ loading' = FALSE
               /\ recommendations' = recommendations
       /\ (HandlePredict \/ \E i \in 1..Len(inflight) : FetchResolves(i, FALSE))
            => recommendations' = recommendations
       /\ recommendations' # recommendations
            => \E i \in 1..Len(inflight), data \in ResponseBodies :
                   /\ "recommendations" \in DOMAIN data
                   /\ inflight[i].stage = "json"
                   /\ JsonResolves(i, data)]_vars

\* a failed call after an earlier one had succeeded
C4_Witness ==
    /\ error = "Failed to get recommendations"
    /\ ~loading
    /\ inflight = <<>>
    /\ Len(recommendations) = 3

\* C6: loading is true exactly while the call has not settled: handlePredict
\* starts from loading false and sets it together with issuing the request,
\* it stays true through every stage of the pending request, it is false
\* once the call has settled, and if requests settle it always gets there.
C6_LoadingTracksCall ==
    /\ [](loading <=> inflight # <<>>)
    /\ [][HandlePredict =>
            (~loading /\ loading' /\ Len(inflight') = Len(inflight) + 1)]_vars
    /\ [][(loading /\ ~loading') => (Len(inflight) = 1 /\ inflight' = <<>>)]_vars
    /\ (loading ~> ~loading)

\* a settled successful call
C6_Witness ==
    /\ ~loading
    /\ inflight = <<>>
    /\ error = Null
    /\ Len(recommendations) = 1

----------------------------------------------------------------------------
(* Claims about the mock-backend useRecommendations *)

\* the non-null entries of a list
EntriesOf(s) == {s[i] : i \in 1..Len(s)} \ {Null}

\* C5: once the timer has fired, no recommended champion is an enemy, an
\* ally ban, an enemy ban, or an ally other than the one cleared from the
\* target-role slot; in particular no banned champion is recommended.
C5_NoTakenChampionRecommended ==
    [][(\E i \in 1..Len(inflight) : inflight[i].stage = "timer" /\ inflight' = RemoveAt(inflight, i))
        => \A k \in 1..Len(recommendations') :
            /\ recommendations'[k].championId \notin EntriesOf(draft.enemies)
            /\ recommendations'[k].championId \notin EntriesOf(draft.allyBans)
            /\ recommendations'[k].championId \notin EntriesOf(draft.enemyBans)
            /\ recommendations'[k].championId \notin
                   {draft.allies[j] : j \in 1..5} \ {Null}]_vars

\* recommendations computed for a draft with a ban, an enemy and a champion
\* list that offers the banned and the picked champion
C5_Witness ==
    /\ ~loading
    /\ inflight = <<>>
    /\ Len(recommendations) = 1
    /\ championList # <<>>
    /\ draft.allyBans[1] = "Ahri"
    /\ draft.enemies[1] = "Zed"

----------------------------------------------------------------------------
(* Specification of the score mapping of handlePredict: the first call of *)
(* a page, answered by the backend with any score of the unit interval    *)

\* a score s of the response is modelled by the integer 1000 * s
ScoreScale == 1000

\* a response whose first recommendation carries the given score
ScoreBody(scoreMilli) ==
    [recommendations |->
        <<[champion |-> "Ahri", score |-> scoreMilli, reasons |-> <<"Synergy">>],
          RecGaren>>]

InitScore ==
    /\ draft = InitialDraft
    /\ selectorContext = NoContext
    /\ RecInit
    /\ championList \in ChampionLists
    /\ championsReq = [stage |-> IF championList = InitialChampionList
                                  THEN "logged" ELSE "done"]
    /\ RestIdle

\* the first click on Predict, a response with status ok, and its body
NextScore ==
    \/ (recommendations = InitialRecommendations /\ PredictStep)
    \/ \E i \in 1..Len(inflight) : FetchResolves(i, TRUE)
    \/ \E i \in 1..Len(inflight), scoreMilli \in 0..ScoreScale :
            JsonResolves(i, ScoreBody(scoreMilli))

SpecScore == InitScore /\ [][NextScore]_vars

\* C11: for every recommendation of a response whose score lies in [0, 1],
\* the score handlePredict stores is an integer of 0..100 and an integer
\* nearest to 100 * score (a tie may go either way).
C11_StoredScoreIsPercent ==
    [][\A i \in 1..Len(inflight), scoreMilli \in 0..ScoreScale :
        JsonResolves(i, ScoreBody(scoreMilli))
        => /\ Len(recommendations') = Len(ScoreBody(scoreMilli).recommendations)
           /\ \A k \in 1..Len(recommendations') :
                LET given  == ScoreBody(scoreMilli).recommendations[k].score
                    stored == recommendations'[k].score
                IN (given >= 0 /\ given <= 1000)
                   => /\ stored \in 0..100
                      /\ 10 * stored - 5 <= given
                      /\ given <= 10 * stored + 5]_vars

\* scores stored at both ends of the range and after a tie
C11_Witness ==
    /\ ~loading
    /\ Len(recommendations) = 2
    /\ recommendations[1].score \in {0, 13, 14, 100}
    /\ recommendations[2].score = 90

----------------------------------------------------------------------------
(* The mount effects of the page: useSystemStatus and useChampions *)

\* bodies of /health: the status field may be 'ok', something else, or absent
HealthBodies ==
    {[status |-> "ok"], [status |-> "OK"], [status |-> "degraded"],
     [detail |-> "Not Found"]}

\* bodies of /version
VersionBodies ==
    {[version |-> "1.2.3"], [version |-> "0.1.0"], [detail |-> "Not Found"]}

\* data.status === 'ok' ? 'ONLINE' : 'OFFLINE', with the comparison inverted
StatusOfInverted(data) ==
    IF "status" \in DOMAIN data /\ data.status = "ok" THEN "OFFLINE" ELSE "ONLINE"

\* data.status === 'ok' ? 'ONLINE' : 'OFFLINE'; an absent field is undefined
StatusOf(data) ==
    IF "status" \in DOMAIN data /\ data.status = "ok" THEN "ONLINE" ELSE "OFFLINE"

\* `v${data.version}`; an absent field prints as undefined
VersionText(data) ==
    <<"v", IF "version" \in DOMAIN data THEN data.version ELSE "undefined">>

\* an effect without the empty dependency list: it runs after every render
StatusEffectEveryRender ==
    /\ healthReq' = [stage |-> "fetch"]
    /\ versionReq' = [stage |-> "fetch"]
    /\ UNCHANGED <<draftVars, recVars, championList, championsReq,
                   systemStatus, version, selectorVars, registryVars>>

\* the effect of useSystemStatus: both requests are sent
StatusEffect ==
    /\ healthReq = Unsent
    /\ versionReq = Unsent
    /\ healthReq' = [stage |-> "fetch"]
    /\ versionReq' = [stage |-> "fetch"]
    /\ UNCHANGED <<draftVars, recVars, championList, championsReq,
                   systemStatus, version, selectorVars, registryVars>>

\* fetch('/health') rejects: .catch(() => setSystemStatus('OFFLINE'))
HealthFetchRejects ==
    /\ healthReq.stage = "fetch"
    /\ healthReq' = [stage |-> "failed"]
    /\ systemStatus' = "OFFLINE"
    /\ UNCHANGED <<draftVars, recVars, championList, championsReq,
                   version, versionReq, selectorVars, registryVars>>

\* fetch('/health') resolves, whatever the HTTP status: res.json() is called
HealthFetchResolves ==
    /\ healthReq.stage = "fetch"
    /\ healthReq' = [stage |-> "json"]
    /\ UNCHANGED <<draftVars, recVars, championList, championsReq,
                   systemStatus, version, versionReq, selectorVars, registryVars>>

\* res.json() rejects: .catch(() => setSystemStatus('OFFLINE'))
HealthJsonRejects ==
    /\ healthReq.stage = "json"
    /\ healthReq' = [stage |-> "failed"]
    /\ systemStatus' = "OFFLINE"
    /\ UNCHANGED <<draftVars, recVars, championList, championsReq,
                   version, versionReq, selectorVars, registryVars>>

\* res.json() resolves with data: setSystemStatus(...)
HealthJsonResolves(data) ==
    /\ healthReq.stage = "json"
    /\ healthReq' = [stage |-> "done", body |-> data]
    /\ systemStatus' = StatusOf(data)
    /\ UNCHANGED <<draftVars, recVars, championList, championsReq,
                   version, versionReq, selectorVars, registryVars>>

\* a rejected fetch('/version') handled like a rejected fetch('/health')
VersionFetchRejectsMarksOffline ==
    /\ versionReq.stage = "fetch"
    /\ versionReq' = [stage |-> "failed"]
    /\ systemStatus' = "OFFLINE"
    /\ UNCHANGED <<draftVars, recVars, championList, championsReq,
                   version, healthReq, selectorVars, registryVars>>

\* fetch('/version') rejects: .catch(() => { })
VersionFetchRejects ==
    /\ versionReq.stage = "fetch"
    /\ versionReq' = [stage |-> "failed"]
    /\ UNCHANGED <<draftVars, recVars, championList, championsReq,
                   systemStatus, version, healthReq, selectorVars, registryVars>>

VersionFetchResolves ==
    /\ versionReq.stage = "fetch"
    /\ versionReq' = [stage |-> "json"]
    /\ UNCHANGED <<draftVars, recVars, championList, championsReq,
                   systemStatus, version, healthReq, selectorVars, registryVars>>

\* res.json() rejects: .catch(() => { })
VersionJsonRejects ==
    /\ versionReq.stage = "json"
    /\ versionReq' = [stage |-> "failed"]
    /\ UNCHANGED <<draftVars, recVars, championList, championsReq,
                   systemStatus, version, healthReq, selectorVars, registryVars>>

\* res.json() resolves with data: setVersion(`v${data.version}`)
VersionJsonResolves(data) ==
    /\ versionReq.stage = "json"
    /\ versionReq' = [stage |-> "done", body |-> data]
    /\ version' = VersionText(data)
    /\ UNCHANGED <<draftVars, recVars, championList, championsReq,
                   systemStatus, healthReq, selectorVars, registryVars>>

\* champion.json: data.data is an object, here the sequence of its
\* <<key, value>> properties in property order
RawChampion(id, key, name, file) ==
    [id |-> id, key |-> key, name |-> name, image |-> [full |-> file]]

\* bodies of champion.json: three champions, one, none, an entry whose
\* image is missing, and a body without the data field
ChampionBodies ==
    {[type |-> "champion",
      data |-> << <<"Ahri", RawChampion("Ahri", "103", "Ahri", "Ahri.png")>>,
                  <<"Zed", RawChampion("Zed", "238", "Zed", "Zed.png")>>,
                  <<"MonkeyKing",
                    RawChampion("MonkeyKing", "62", "Wukong", "MonkeyKing.png")>> >>],
     [type |-> "champion",
      data |-> << <<"Ahri", RawChampion("Ahri", "103", "Ahri", "Ahri.png")>> >>],
     [type |-> "champion", data |-> << >>],
     [type |-> "champion",
      data |-> << <<"Ahri", RawChampion("Ahri", "103", "Ahri", "Ahri.png")>>,
                  <<"Zed", [id |-> "Zed", key |-> "238", name |-> "Zed"]>> >>],
     [message |-> "Forbidden"]}

\* Object.values(obj)
ObjectValues(obj) == [i \in 1..Len(obj) |-> obj[i][2]]

\* the callback of map, but the name is taken from the id
MapChampionNameFromId(c) ==
    [id    |-> c.id,
     name  |-> c.id,
     image |-> <<ImageBase, c.image.full>>]

\* the callback of Object.values(data.data).map
MapChampion(c) ==
    [id    |-> c.id,
     name  |-> c.name,
     image |-> <<ImageBase, c.image.full>>]

MapChampions(values) == [i \in 1..Len(values) |-> MapChampion(values[i])]

\* Object.values(undefined) and c.image.full of an entry without image
\* throw a TypeError
MappingThrows(data) ==
    \/ "data" \notin DOMAIN data
    \/ \E i \in 1..Len(data.data) : "image" \notin DOMAIN data.data[i][2]

\* the effect of useChampions: the request is sent
ChampionsEffect ==
    /\ championsReq = Unsent
    /\ championsReq' = [stage |-> "fetch"]
    /\ UNCHANGED <<draftVars, recVars, championList, statusVars,
                   selectorVars, registryVars>>

\* .catch(err => console.error("Failed to fetch champions", err))
ChampionsFail ==
    /\ championsReq' = [stage |-> "logged"]
    /\ UNCHANGED <<draftVars, recVars, championList, statusVars,
                   selectorVars, registryVars>>

ChampionsFetchRejects ==
    /\ championsReq.stage = "fetch"
    /\ ChampionsFail

ChampionsFetchResolves ==
    /\ championsReq.stage = "fetch"
    /\ championsReq' = [stage |-> "json"]
    /\ UNCHANGED <<draftVars, recVars, championList, statusVars,
                   selectorVars, registryVars>>

ChampionsJsonRejects ==
    /\ championsReq.stage = "json"
    /\ ChampionsFail

\* res.json() resolves with data: the list is mapped and stored, unless the
\* mapping throws
ChampionsJsonResolves(data) ==
    /\ championsReq.stage = "json"
    /\ IF MappingThrows(data)
       THEN ChampionsFail
       ELSE /\ championList' = MapChampions(ObjectValues(data.data))
            /\ championsReq' = [stage |-> "done"]
            /\ UNCHANGED <<draftVars, recVars, statusVars, selectorVars, registryVars>>

----------------------------------------------------------------------------
(* Specification of a freshly mounted page whose effects run and whose     *)
(* three requests settle in any order                                      *)

NextMount ==
    \/ StatusEffect
    \/ HealthFetchRejects
    \/ HealthFetchResolves
    \/ HealthJsonRejects
    \/ \E data \in HealthBodies : HealthJsonResolves(data)
    \/ VersionFetchRejects
    \/ VersionFetchResolves
    \/ VersionJsonRejects
    \/ \E data \in VersionBodies : VersionJsonResolves(data)
    \/ ChampionsEffect
    \/ ChampionsFetchRejects
    \/ ChampionsFetchResolves
    \/ ChampionsJsonRejects
    \/ \E data \in ChampionBodies : ChampionsJsonResolves(data)

SpecMount == Init /\ [][NextMount]_vars

----------------------------------------------------------------------------
(* Claims about useSystemStatus and useChampions *)

\* C12: systemStatus is 'ONLINE' exactly when the /health request has
\* resolved with a body whose status field is 'ok', and 'OFFLINE' in every
\* other case (before the answer, after a failure, after any other body);
\* version is 'v0.0.0' until /version has resolved and from then on 'v'
\* followed by the version field of the body received.
C12_StatusAndVersion ==
    /\ systemStatus \in {"ONLINE", "OFFLINE"}
    /\ (systemStatus = "ONLINE")
        <=> (/\ healthReq.stage = "done"
             /\ "status" \in DOMAIN healthReq.body
             /\ healthReq.body.status = "ok")
    /\ (versionReq.stage # "done") => (version = <<"v", "0.0.0">>)
    /\ (versionReq.stage = "done" /\ "version" \in DOMAIN versionReq.body)
        => (version = <<"v", versionReq.body.version>>)

\* a healthy backend that has reported its version
C12_Witness ==
    /\ systemStatus = "ONLINE"
    /\ healthReq.stage = "done"
    /\ versionReq.stage = "done"
    /\ version = <<"v", "1.2.3">>

\* C16: when the champions request fails (fetch rejected, body not JSON, or
\* a body that cannot be mapped) the list stays empty and nothing but the
\* request changes; when it succeeds the list holds, in order, one entry
\* per champion of the response with its id, its name and the image URL
\* built from its image file.
C16_ChampionList ==
    /\ [][(\/ ChampionsFetchRejects
           \/ ChampionsJsonRejects
           \/ \E data \in ChampionBodies :
                /\ ChampionsJsonResolves(data)
                /\ \/ "data" \notin DOMAIN data
                   \/ \E i \in 1..Len(data.data) : "image" \notin DOMAIN data.data[i][2])
          => /\ championList' = <<>>
             /\ championsReq'.stage = "logged"
             /\ UNCHANGED <<draftVars, recVars, statusVars, selectorVars, registryVars>>]_vars
    /\ [][\A data \in ChampionBodies :
            (/\ ChampionsJsonResolves(data)
             /\ "data" \in DOMAIN data
             /\ \A i \in 1..Len(data.data) : "image" \in DOMAIN data.data[i][2])
            => /\ Len(championList') = Len(data.data)
               /\ \A i \in 1..Len(data.data) :
                    /\ championList'[i].id = data.data[i][2].id
                    /\ championList'[i].name = data.data[i][2].name
                    /\ championList'[i].image[1] = ImageBase
                    /\ championList'[i].image[2] = data.data[i][2].image.full
                    /\ DOMAIN championList'[i] = {"id", "name", "image"}]_vars
    /\ [](championsReq.stage = "logged" => championList = <<>>)

\* the three champions of the response, loaded
C16_Witness ==
    /\ championsReq.stage = "done"
    /\ championList = LoadedChampionList

----------------------------------------------------------------------------
(* ChampionSelector: the search box, the None option and one button per   *)
(* champion that passes the filter                                          *)

\* onSelect calls recorded per behaviour
MaxSelectCalls == 2

\* the characters of the champion names
Chars(name) ==
    CASE name = "Ahri"   -> <<"A", "h", "r", "i">>
      [] name = "Zed"    -> <<"Z", "e", "d">>
      [] name = "Wukong" -> <<"W", "u", "k", "o", "n", "g">>

\* toLowerCase of one character
LowerChar(c) ==
    LET upper == <<"A", "B", "C", "D", "E", "F", "G", "H", "I", "J", "K", "L", "M",
                   "N", "O", "P", "Q", "R", "S", "T", "U", "V", "W", "X", "Y", "Z">>
        lower == <<"a", "b", "c", "d", "e", "f", "g", "h", "i", "j", "k", "l", "m",
                   "n", "o", "p", "q", "r", "s", "t", "u", "v", "w", "x", "y", "z">>
    IN IF \E k \in 1..Len(upper) : upper[k] = c
       THEN lower[CHOOSE k \in 1..Len(upper) : upper[k] = c]
       ELSE c

\* s.toLowerCase()
ToLowerCase(s) == [i \in 1..Len(s) |-> LowerChar(s[i])]

\* hay.includes(needle)
Includes(hay, needle) ==
    \E k \in 0..(Len(hay) - Len(needle)) :
        \A j \in 1..Len(needle) : hay[k + j] = needle[j]

\* what the user types into the search box
SearchInputs == {<<>>, <<"z">>, <<"Z", "E">>, <<"r", "i">>, <<"R">>, <<"q">>}

\* champions.filter(c => c.name.toLowerCase().includes(search.toLowerCase()))
RECURSIVE Filtered(_, _)
Filtered(champions, text) ==
    IF champions = <<>> THEN <<>>
    ELSE LET rest == Filtered(Tail(champions), text)
         IN IF Includes(ToLowerCase(Chars(Head(champions).name)), ToLowerCase(text))
            THEN <<Head(champions)>> \o rest
            ELSE rest

\* no button is ever disabled
IsDisabledNever(ids, champId) == FALSE

\* isDisabled = disabledIds.has(champ.id)
IsDisabled(ids, champId) == champId \in ids

\* the champion buttons rendered by filtered.map
ChampionButtons(champions, ids, text) ==
    LET shown == Filtered(champions, text)
    IN [i \in 1..Len(shown) |->
            [key |-> shown[i].id, disabled |-> IsDisabled(ids, shown[i].id)]]

\* sets of taken champions handed to the selector; Garen is not in the list
DisabledSets == SUBSET {"Ahri", "Zed", "MonkeyKing", "Garen"}

\* onChange of the search box: setSearch(e.target.value)
ChangeSearch(text) ==
    /\ search' = text
    /\ UNCHANGED <<draftVars, recVars, championList, championsReq, statusVars,
                   disabledIds, onSelectCalls, registryVars>>

\* a click on the None option: onSelect('')
ClickNone ==
    /\ onSelectCalls' = Append(onSelectCalls, "")
    /\ UNCHANGED <<draftVars, recVars, championList, championsReq, statusVars,
                   disabledIds, search, registryVars>>

\* a click on the i-th champion button: a disabled button dispatches no
\* click, an enabled one calls onSelect(champ.id)
ClickChampion(i) ==
    LET buttons == ChampionButtons(championList, disabledIds, search)
    IN /\ i \in 1..Len(buttons)
       /\ IF buttons[i].disabled
          THEN UNCHANGED vars
          ELSE /\ onSelectCalls' = Append(onSelectCalls, buttons[i].key)
               /\ UNCHANGED <<draftVars, recVars, championList, championsReq,
                              statusVars, disabledIds, search, registryVars>>

----------------------------------------------------------------------------
(* Specification of an open ChampionSelector over the loaded champion list *)

InitSelector ==
    /\ draft = InitialDraft
    /\ selectorContext = NoContext
    /\ RecInit
    /\ championList = LoadedChampionList
    /\ championsReq = [stage |-> "done"]
    /\ \E ids \in DisabledSets : RestInit(ids, <<>>)

NextSelector ==
    \/ \E text \in SearchInputs : ChangeSearch(text)
    \/ (Len(onSelectCalls) < MaxSelectCalls /\ ClickNone)
    \/ (/\ Len(onSelectCalls) < MaxSelectCalls
        /\ \E i \in 1..Len(championList) : ClickChampion(i))

SpecSelector == InitSelector /\ [][NextSelector]_vars

\* C13: every champion button whose id is in disabledIds is disabled and
\* onSelect is never called with an id of disabledIds; a click on the button
\* of a shown champion outside disabledIds calls onSelect with its id, and a
\* click on None calls onSelect('').
C13_DisabledNeverSelected ==
    /\ [](\A k \in 1..Len(onSelectCalls) : onSelectCalls[k] \notin disabledIds)
    /\ [](LET buttons == ChampionButtons(championList, disabledIds, search)
          IN \A i \in 1..Len(buttons) :
                buttons[i].disabled <=> (buttons[i].key \in disabledIds))
    /\ [][\A i \in 1..Len(championList) :
            LET buttons == ChampionButtons(championList, disabledIds, search)
            IN (ClickChampion(i) /\ buttons[i].key \notin disabledIds)
               => onSelectCalls' = Append(onSelectCalls, buttons[i].key)]_vars
    /\ [][ClickNone => onSelectCalls' = Append(onSelectCalls, "")]_vars

\* Ahri is taken and shown, and the clicks so far selected Zed and None
C13_Witness ==
    /\ "Ahri" \in disabledIds
    /\ \E i \in 1..Len(ChampionButtons(championList, disabledIds, search)) :
          ChampionButtons(championList, disabledIds, search)[i].key = "Ahri"
    /\ onSelectCalls = <<"Zed", "">>

----------------------------------------------------------------------------
(* DraftCenter: the header with the Predict button and the role selector,  *)
(* and the recommendations feed                                             *)

\* recommendations.slice(0, 3)
ShownTop == 3

\* a Predict button that stays enabled
PredictButtonAlwaysEnabled(isLoading) ==
    [disabled |-> FALSE,
     label    |-> IF isLoading THEN "Analyzing..." ELSE "Predict"]

\* the Predict button of DraftHeader
PredictButton(isLoading) ==
    [disabled |-> isLoading,
     label    |-> IF isLoading THEN "Analyzing..." ELSE "Predict"]

\* a click on the Predict button: a disabled button dispatches no click,
\* an enabled one calls onPredict, which the page binds to handlePredict
ClickPredict ==
    IF PredictButton(loading).disabled
    THEN UNCHANGED vars
    ELSE HandlePredict

\* every recommendation gets a card
TopCardsAll(recs) ==
    [i \in 1..Len(recs) |-> [type |-> "card", rec |-> recs[i], rank |-> (i - 1) + 1]]

\* recommendations.slice(0, 3).map((rec, i) => <RecommendationCard rank={i + 1}/>)
TopCards(recs) ==
    [i \in 1..Len(Slice(recs, 0, ShownTop)) |->
        [type |-> "card", rec |-> Slice(recs, 0, ShownTop)[i], rank |-> (i - 1) + 1]]

\* the children of the feed, in render order: the view chosen by the
\* ternary, then the footer line whenever there are recommendations
Feed(isLoading, recs) ==
    (IF isLoading
     THEN [i \in 1..3 |-> [type |-> "skeleton", key |-> i]]
     ELSE IF Len(recs) = 0
          THEN <<[type |-> "empty"]>>
          ELSE TopCards(recs))
    \o (IF Len(recs) > 0 THEN <<[type |-> "footer"]>> ELSE <<>>)

\* the bodies of the backend specification and one with four recommendations
CenterBodies ==
    ResponseBodies \cup
    {[recommendations |->
        <<RecGaren, RecAhri,
          [champion |-> "Zed", score |-> 500, reasons |-> <<"Counter", "Lane">>],
          RecMonkeyKing>>]}

----------------------------------------------------------------------------
(* Specification of DraftCenter bound to useDraft and useRecommendations;  *)
(* champion.json has been loaded, has failed or is still being read        *)

InitCenter ==
    /\ draft = InitialDraft
    /\ selectorContext = NoContext
    /\ RecInit
    /\ championList \in ChampionLists
    /\ championsReq \in IF championList = InitialChampionList
                        THEN {[stage |-> "logged"], [stage |-> "json"]}
                        ELSE {[stage |-> "done"]}
    /\ RestIdle

NextCenter ==
    \/ ClickPredict
    \/ TargetRoleStep
    \/ FetchRejectsStep
    \/ FetchResolvesStep
    \/ TextSettlesStep
    \/ JsonRejectsStep
    \/ \E i \in 1..Len(inflight), data \in CenterBodies : JsonResolves(i, data)
    \/ \E data \in ChampionBodies : ChampionsJsonResolves(data)

SpecCenter == InitCenter /\ [][NextCenter]_vars

\* C14: while loading is true the Predict button is disabled and no call of
\* handlePredict begins; a click while loading is false begins exactly one
\* call.
C14_PredictDisabledWhileLoading ==
    /\ [](loading => PredictButton(loading).disabled)
    /\ [](~loading => ~PredictButton(loading).disabled)
    /\ [][loading => Len(inflight') <= Len(inflight)]_vars
    /\ [][(ClickPredict /\ ~loading)
          => /\ Len(inflight') = Len(inflight) + 1
             /\ SubSeq(inflight', 1, Len(inflight)) = inflight
             /\ inflight'[Len(inflight')].stage = "fetch"]_vars

\* a call in progress, begun by a click
C14_Witness ==
    /\ loading
    /\ Len(inflight) = 1
    /\ PredictButton(loading).label = "Analyzing..."

\* C15: the feed holds exactly one of skeletons, empty state and cards:
\* three skeletons while loading; the empty state when not loading and
\* there is no recommendation; otherwise one card for each of the first
\* min(3, n) recommendations, in list order, with ranks 1..min(3, n).
C15_ExactlyOneView ==
    LET feed   == Feed(loading, recommendations)
        views  == {feed[i].type : i \in 1..Len(feed)} \ {"footer"}
        IsCard(e) == e.type = "card"
        cards  == SelectSeq(feed, IsCard)
        n      == Len(recommendations)
    IN /\ Cardinality(views) = 1
       /\ loading => views = {"skeleton"}
       /\ (~loading /\ n = 0) => views = {"empty"}
       /\ (~loading /\ n > 0)
          => /\ views = {"card"}
             /\ Len(cards) = Min(3, n)
             /\ \A i \in 1..Len(cards) :
                    /\ cards[i].rec = recommendations[i]
                    /\ cards[i].rank = i

\* four recommendations, of which three are shown
C15_Witness ==
    /\ ~loading
    /\ Len(recommendations) = 4
    /\ Len(Feed(loading, recommendations)) = 4

----------------------------------------------------------------------------
(* Further claims about useDraft *)

\* C17: setTargetRole(role) sets draft.targetRole to role and leaves the
\* four slot lists and selectorContext as they were, also when the ally
\* slot of the new role holds a champion.
C17_SetTargetRoleFrame ==
    [][\A role \in Roles :
        SetTargetRole(role)
        => /\ draft'.targetRole = role
           /\ draft'.allies = draft.allies
           /\ draft'.enemies = draft.enemies
           /\ draft'.allyBans = draft.allyBans
           /\ draft'.enemyBans = draft.enemyBans
           /\ DOMAIN draft' = DOMAIN draft
           /\ selectorContext' = selectorContext]_vars

\* the target role was moved to MID while the MID ally slot holds Ahri and
\* a selector is open
C17_Witness ==
    /\ draft.targetRole = "MID"
    /\ draft.allies[3] = "Ahri"
    /\ selectorContext # NoContext

----------------------------------------------------------------------------
(* Backend: ArtifactStore, ModelRegistry and the recommend calls that read *)
(* the active artifact, after sections 3, 4.2, 5 and 7 of the design       *)

\* version ids in use
MaxVersion == 2

\* concurrent recommend calls
MaxReaders == 2

\* build timestamps, to tell two artifacts of one version apart
BuiltAts == {1, 2}

\* an artifact: version, build timestamp and its tables, each table
\* identified by the build it came from
Artifact(v, t) ==
    [version  |-> v,
     built_at |-> t,
     base     |-> <<"base", v, t>>,
     lifts    |-> <<"lifts", v, t>>]

Artifacts == {Artifact(v, t) : v \in 1..MaxVersion, t \in BuiltAts}

\* the versions persisted
StoredVersions == {a.version : a \in store}

\* store.latest(): the highest version persisted, 0 for none
Latest == IF store = {} THEN 0
          ELSE CHOOSE v \in StoredVersions : \A w \in StoredVersions : w <= v

\* the artifact persisted under a version
Load(v) == CHOOSE a \in store : a.version = v

\* the version of the active artifact, 0 while the registry is Empty
ActiveVersion == IF active = <<>> THEN 0 ELSE active[1].version

\* store.put that replaces what is stored under the version
PutOverwrites(artifact) ==
    /\ store' = {a \in store : a.version # artifact.version} \cup {artifact}
    /\ putResult' = "ok"
    /\ UNCHANGED <<draftVars, recVars, championList, championsReq, statusVars,
                   selectorVars, active, readers>>

\* store.put(artifact): VersionConflictError if the version exists
Put(artifact) ==
    /\ IF artifact.version \in StoredVersions
       THEN /\ putResult' = "VersionConflictError"
            /\ store' = store
       ELSE /\ putResult' = "ok"
            /\ store' = store \cup {artifact}
    /\ UNCHANGED <<draftVars, recVars, championList, championsReq, statusVars,
                   selectorVars, active, readers>>

\* registry.activate(version): the artifact is loaded from the store, then
\* the active reference is replaced in one step
Activate(v) ==
    /\ v \in StoredVersions
    /\ active' = <<Load(v)>>
    /\ UNCHANGED <<draftVars, recVars, championList, championsReq, statusVars,
                   selectorVars, store, readers, putResult>>

\* a refresh that picks the lowest version persisted
RefreshTargetOldest ==
    IF store = {} THEN 0
    ELSE CHOOSE v \in StoredVersions : \A w \in StoredVersions : v <= w

\* the version refresh asks the store for: store.latest()
RefreshTarget == Latest

\* registry.refresh(): activate store.latest() if newer, else a no-op
Refresh ==
    IF Latest # 0 /\ Latest > ActiveVersion
    THEN Activate(RefreshTarget)
    ELSE UNCHANGED vars

\* a call that asks the registry again at every use
CallArtifactReread(call) == active[1]

\* the artifact a running call works with: the reference read at entry
CallArtifact(call) == call.ref[1]

NoCall == [state |-> "idle", ref |-> <<>>, used |-> <<>>]

\* entry of recommend for caller r: registry.current() is read once;
\* NoActiveArtifactError while the registry is Empty
EnterRecommend(r) ==
    /\ readers[r].state = "idle"
    /\ readers' = [readers EXCEPT ![r] =
            IF active = <<>>
            THEN [state |-> "rejected", ref |-> <<>>, used |-> <<>>]
            ELSE [state |-> "running", ref |-> active, used |-> <<>>]]
    /\ UNCHANGED <<draftVars, recVars, championList, championsReq, statusVars,
                   selectorVars, store, active, putResult>>

\* the call of caller r reads the base table
ReadBase(r) ==
    /\ readers[r].state = "running"
    /\ Len(readers[r].used) = 0
    /\ readers' = [readers EXCEPT ![r].used = <<CallArtifact(readers[r]).base>>]
    /\ UNCHANGED <<draftVars, recVars, championList, championsReq, statusVars,
                   selectorVars, store, active, putResult>>

\* the call of caller r reads the lift tables and returns
ReadLifts(r) ==
    /\ readers[r].state = "running"
    /\ Len(readers[r].used) = 1
    /\ readers' = [readers EXCEPT
            ![r].used = Append(@, CallArtifact(readers[r]).lifts),
            ![r].state = "done"]
    /\ UNCHANGED <<draftVars, recVars, championList, championsReq, statusVars,
                   selectorVars, store, active, putResult>>

----------------------------------------------------------------------------
(* Specification of the backend: an operator who puts and activates        *)
(* artifacts while recommend calls run                                      *)

InitRegistry ==
    /\ draft = InitialDraft
    /\ selectorContext = NoContext
    /\ RecInit
    /\ championList = InitialChampionList
    /\ championsReq = Unsent
    /\ RestInit({}, [r \in 1..MaxReaders |-> NoCall])

NextRegistry ==
    \/ \E artifact \in Artifacts : Put(artifact)
    \/ \E v \in 1..MaxVersion : Activate(v)
    \/ Refresh
    \/ \E r \in 1..MaxReaders : EnterRecommend(r)
    \/ \E r \in 1..MaxReaders : ReadBase(r)
    \/ \E r \in 1..MaxReaders : ReadLifts(r)

SpecRegistry == InitRegistry /\ [][NextRegistry]_vars

----------------------------------------------------------------------------
(* Claims about the store, the registry and the recommend calls *)

\* C18: activate replaces the active reference in one step by a complete
\* stored artifact and touches no running call; every table a recommend
\* call reads belongs to the artifact it read at entry, whatever is
\* activated meanwhile, so a finished call never combines two builds.
C18_CallUsesEntryVersion ==
    /\ [](\A r \in 1..MaxReaders :
            \A k \in 1..Len(readers[r].used) :
                /\ readers[r].used[k][2] = readers[r].ref[1].version
                /\ readers[r].used[k][3] = readers[r].ref[1].built_at)
    /\ [](\A r \in 1..MaxReaders :
            readers[r].state = "done"
            => /\ Len(readers[r].used) = 2
               /\ readers[r].used[1][2] = readers[r].used[2][2]
               /\ readers[r].used[1][3] = readers[r].used[2][3])
    /\ [](active = <<>> \/ (Len(active) = 1 /\ active[1] \in Artifacts))
    /\ [][\A v \in 1..MaxVersion :
            Activate(v)
            => /\ readers' = readers
               /\ active'[1] \in store
               /\ active'[1].version = v]_vars

\* version 2 is active while one call that entered under version 1 has
\* finished and another is half way through
C18_Witness ==
    /\ ActiveVersion = 2
    /\ readers[1].state = "done"
    /\ readers[1].ref[1].version = 1
    /\ readers[2].state = "running"
    /\ readers[2].ref[1].version = 1
    /\ Len(readers[2].used) = 1

\* C19: a put of an artifact whose version is already stored fails with
\* VersionConflictError and leaves the store, and so the artifact stored
\* under that version, as it was; no version ever holds two artifacts and
\* no stored artifact is ever removed.
C19_PutWriteOnce ==
    /\ [][\A artifact \in Artifacts :
            (Put(artifact) /\ artifact.version \in StoredVersions)
            => /\ putResult' = "VersionConflictError"
               /\ store' = store
               /\ \E a \in store' : a.version = artifact.version /\ a \in store]_vars
    /\ [][\A a \in store : a \in store']_vars
    /\ [](\A a, b \in store : a.version = b.version => a = b)

\* a put was refused while version 1 is stored with build timestamp 1
C19_Witness ==
    /\ putResult = "VersionConflictError"
    /\ Artifact(1, 1) \in store

\* C20: refresh makes the artifact of store.latest() active when that
\* version is above the active one (an Empty registry counting as below
\* every version) and changes nothing otherwise; the active version never
\* decreases in a refresh.
C20_RefreshMonotone ==
    [][Refresh
       => /\ IF Latest > ActiveVersion
             THEN /\ active' = <<Load(Latest)>>
                  /\ UNCHANGED <<store, readers, putResult>>
             ELSE UNCHANGED vars
          /\ ActiveVersion' >= ActiveVersion]_vars

\* both versions are stored and the latest is active
C20_Witness ==
    /\ StoredVersions = {1, 2}
    /\ ActiveVersion = 2
    /\ Latest = 2

----------------------------------------------------------------------------
(* Further claims about useRecommendations *)

\* C21: a successful response is stored entry by entry in the order of the
\* backend: championId is the returned champion, championName the name of
\* the champion with that id in the championList handlePredict was called
\* with, or the id itself when there is none, and primaryReason the first element of reasons, or the fixed
\* text when reasons is missing or empty.
C21_RecommendationMapping ==
    [][\A i \in 1..Len(inflight), data \in CenterBodies :
        (JsonResolves(i, data) /\ "recommendations" \in DOMAIN data)
        => /\ Len(recommendations') = Len(data.recommendations)
           /\ \A k \in 1..Len(data.recommendations) :
                LET r      == data.recommendations[k]
                    stored == recommendations'[k]
                    list   == inflight[i].championList
                    known  == {j \in 1..Len(list) : list[j].id = r.champion}
                IN /\ stored.championId = r.champion
                   /\ IF known = {}
                      THEN stored.championName = r.champion
                      ELSE \E j \in known : stored.championName = list[j].name
                   /\ IF "reasons" \in DOMAIN r /\ r.reasons # <<>>
                      THEN stored.primaryReason = Head(r.reasons)
                      ELSE stored.primaryReason = "Recommended based on draft state"]_vars

\* four recommendations stored against the loaded champion list: Garen is
\* unknown to the list, MonkeyKing is listed as Wukong and has no reasons
C21_Witness ==
    /\ ~loading
    /\ championList = LoadedChampionList
    /\ Len(recommendations) = 4
    /\ recommendations[1].championName = "Garen"
    /\ recommendations[3].primaryReason = "Counter"
    /\ recommendations[4].championName = "Wukong"
    /\ recommendations[4].primaryReason = "Recommended based on draft state"

----------------------------------------------------------------------------
(* Further claims about useSystemStatus *)

\* a request that has settled, well or badly
Settled(req) == req.stage \in {"done", "failed"}

\* C22: the two requests are handled independently.  Once both have
\* settled, systemStatus is determined by the outcome of /health alone and
\* version by the outcome of /version alone, whatever the order of the
\* steps; a failing /version leaves version at 'v0.0.0' and systemStatus
\* as it was; no step of the /health request changes version and no step
\* of the /version request changes systemStatus.
C22_IndependentRequests ==
    /\ []((Settled(healthReq) /\ Settled(versionReq))
          => /\ systemStatus =
                   IF /\ healthReq.stage = "done"
                      /\ "status" \in DOMAIN healthReq.body
                      /\ healthReq.body.status = "ok"
                   THEN "ONLINE" ELSE "OFFLINE"
             /\ version =
                   IF versionReq.stage = "done"
                   THEN <<"v", IF "version" \in DOMAIN versionReq.body
                               THEN versionReq.body.version ELSE "undefined">>
                   ELSE <<"v", "0.0.0">>)
    /\ [][(VersionFetchRejects \/ VersionJsonRejects)
          => (version' = <<"v", "0.0.0">> /\ systemStatus' = systemStatus)]_vars
    /\ [][(versionReq' # versionReq /\ healthReq' = healthReq)
          => systemStatus' = systemStatus]_vars
    /\ [][(healthReq' # healthReq /\ versionReq' = versionReq)
          => version' = version]_vars

\* /health answered ok and /version failed
C22_Witness ==
    /\ healthReq.stage = "done"
    /\ systemStatus = "ONLINE"
    /\ versionReq.stage = "failed"
    /\ version = <<"v", "0.0.0">>

\* C28: each request is sent once, by the mount effect, and is never sent
\* again; once both requests have settled neither they nor systemStatus
\* nor version change any more, so an OFFLINE after a failed health check
\* stays.
C28_NoRetry ==
    /\ [][(healthReq'.stage = "fetch" /\ healthReq' # healthReq)
          => (healthReq = Unsent /\ StatusEffect)]_vars
    /\ [][(versionReq'.stage = "fetch" /\ versionReq' # versionReq)
          => (versionReq = Unsent /\ StatusEffect)]_vars
    /\ [][Settled(healthReq) => healthReq' = healthReq]_vars
    /\ [][Settled(versionReq) => versionReq' = versionReq]_vars
    /\ [][(Settled(healthReq) /\ Settled(versionReq))
          => (systemStatus' = systemStatus /\ version' = version)]_vars

\* a failed health check next to an answered /version
C28_Witness ==
    /\ healthReq.stage = "failed"
    /\ systemStatus = "OFFLINE"
    /\ versionReq.stage = "done"
    /\ version = <<"v", "1.2.3">>

----------------------------------------------------------------------------
(* TeamColumn: a row of ban slots and a column of pick slots of one side   *)

\* the pick slots, but isTarget without the test for the blue side
PickSlotsAnySide(side, picks, activeSlot, targetRole, champions) ==
    [i \in 1..Len(picks) |->
        [champion |-> Find(champions, picks[i]),
         role     |-> At(ROLES, i - 1),
         isActive |-> activeSlot = <<i - 1>>,
         isTarget |-> At(ROLES, i - 1) = targetRole,
         side     |-> side,
         onClick  |-> <<i - 1, "pick">>]]

\* picks.map((pickId, idx) => <PickSlot .../>); onClick holds the arguments
\* its callback passes to onSlotClick, activeSlot is <<>> for null
PickSlots(side, picks, activeSlot, targetRole, champions) ==
    [i \in 1..Len(picks) |->
        [champion |-> Find(champions, picks[i]),
         role     |-> At(ROLES, i - 1),
         isActive |-> activeSlot = <<i - 1>>,
         isTarget |-> side = "blue" /\ At(ROLES, i - 1) = targetRole,
         side     |-> side,
         onClick  |-> <<i - 1, "pick">>]]

\* bans.map((banId, idx) => <BanSlot .../>)
BanSlots(side, bans, champions) ==
    [i \in 1..Len(bans) |->
        [champion |-> Find(champions, bans[i]),
         side     |-> side,
         index    |-> i - 1,
         onClick  |-> <<i - 1, "ban">>]]

\* the picks and bans the page hands to the column of a side
PicksOf(d, side) == IF side = "blue" THEN d.allies ELSE d.enemies

BansOf(d, side) == IF side = "blue" THEN d.allyBans ELSE d.enemyBans

\* the slots of one type rendered for a side
ColumnSlots(side, type) ==
    IF type = "pick"
    THEN PickSlots(side, PicksOf(draft, side), <<>>, draft.targetRole, championList)
    ELSE BanSlots(side, BansOf(draft, side), championList)

\* a click on the slot at position idx of a column: its callback calls
\* onSlotClick, which the page binds to handleSlotClick for that side
ClickSlot(side, type, idx) ==
    LET slots == ColumnSlots(side, type)
    IN /\ idx + 1 \in 1..Len(slots)
       /\ HandleSlotClick(slots[idx + 1].onClick[1], side, slots[idx + 1].onClick[2])

----------------------------------------------------------------------------
(* Specification of the two TeamColumns over drafts with at most one pick  *)
(* or ban, with the role selector and the selector's close button          *)

InitColumn ==
    /\ draft \in DraftsUpTo(1)
    /\ selectorContext = NoContext
    /\ RecInit
    /\ championList = LoadedChampionList
    /\ championsReq = [stage |-> "done"]
    /\ RestIdle

NextColumn ==
    \/ \E side \in Sides, type \in SlotTypes, idx \in 0..(NumSlots - 1) :
            ClickSlot(side, type, idx)
    \/ TargetRoleStep
    \/ CloseSelector

SpecColumn == InitColumn /\ [][NextColumn]_vars

\* C23: in the blue column exactly one pick slot is marked as target, the
\* one at the position of targetRole in ROLES; in the red column none is;
\* a click on pick or ban slot idx of a side calls onSlotClick(idx, 'pick')
\* or onSlotClick(idx, 'ban'), which opens the selector on that slot.
C23_TargetSlotAndClicks ==
    /\ [](LET blue == ColumnSlots("blue", "pick")
              red  == ColumnSlots("red", "pick")
          IN /\ Cardinality({i \in 1..Len(blue) : blue[i].isTarget}) = 1
             /\ \A i \in 1..Len(blue) :
                    blue[i].isTarget <=> (ROLES[i] = draft.targetRole)
             /\ \A i \in 1..Len(red) : ~red[i].isTarget)
    /\ [](\A side \in Sides, type \in SlotTypes :
            \A i \in 1..Len(ColumnSlots(side, type)) :
                ColumnSlots(side, type)[i].onClick = <<i - 1, type>>)
    /\ [][\A side \in Sides, type \in SlotTypes, idx \in 0..4 :
            ClickSlot(side, type, idx)
            => selectorContext' =
                 <<[idx |-> idx,
                    destination |-> IF type = "pick"
                                    THEN (IF side = "blue" THEN "ally" ELSE "enemy")
                                    ELSE (IF side = "blue" THEN "allyBan"
                                                            ELSE "enemyBan")]>>]_vars

\* the target role is ADC, an enemy is picked and the click on the red ban
\* slot 3 has opened the selector
C23_Witness ==
    /\ draft.targetRole = "ADC"
    /\ ColumnSlots("blue", "pick")[4].isTarget
    /\ draft.enemies[1] = "Zed"
    /\ selectorContext = <<[idx |-> 3, destination |-> "enemyBan"]>>

----------------------------------------------------------------------------
(* Claims about the shape and the contents of the draft *)

\* C24: whatever handleSlotClick, handleSelect, closeSelector and
\* setTargetRole calls were made with slot indices of 0..4, each of the
\* four lists has exactly 5 entries and every entry is null or a non-empty
\* champion id.
C24_ListsKeepShape ==
    \A dest \in Destinations :
        /\ Len(ListOf(draft, dest)) = 5
        /\ \A i \in 1..Len(ListOf(draft, dest)) :
            \/ ListOf(draft, dest)[i] = Null
            \/ (ListOf(draft, dest)[i] \in ChampIds /\ ListOf(draft, dest)[i] # "")

\* picks at the first and the last index, after the target role was moved
C24_Witness ==
    /\ draft.allies[1] = "Ahri"
    /\ draft.enemyBans[5] = "Zed"
    /\ draft.targetRole = "SUPPORT"
    /\ selectorContext = NoContext

\* the champion occupies a slot of the draft other than the given one
OccupiesOther(d, champId, destination, idx) ==
    \E dest \in Destinations, i \in 0..(NumSlots - 1) :
        /\ <<dest, i>> # <<destination, idx>>
        /\ ListOf(d, dest)[i + 1] = champId

\* C25: handleSelect stores a champion id in the addressed slot also when
\* the id already occupies another slot, and leaves that other slot as it
\* is, so the same champion ends up in two slots.
C25_NoUniquenessCheck ==
    [][\A champId \in ChampIds :
        (/\ selectorContext # NoContext
         /\ HandleSelect(champId)
         /\ OccupiesOther(draft, champId, selectorContext[1].destination,
                          selectorContext[1].idx))
        => /\ ListOf(draft', selectorContext[1].destination)[selectorContext[1].idx + 1]
                = champId
           /\ OccupiesOther(draft', champId, selectorContext[1].destination,
                            selectorContext[1].idx)]_vars

\* Ahri is an ally and banned by the allies at the same time
C25_Witness ==
    /\ draft.allies[1] = "Ahri"
    /\ draft.allyBans[1] = "Ahri"

----------------------------------------------------------------------------
(* Claims about the draft update of handlePredict *)

\* d2 is d1 with the ally slot at roleIndex emptied and nothing else changed
OnlyRoleCleared(d1, d2, roleIndex) ==
    /\ DOMAIN d2 = DOMAIN d1
    /\ Len(d2.allies) = Len(d1.allies)
    /\ d2.allies[roleIndex + 1] = Null
    /\ \A i \in 1..Len(d1.allies) : i # roleIndex + 1 => d2.allies[i] = d1.allies[i]
    /\ d2.enemies = d1.enemies
    /\ d2.allyBans = d1.allyBans
    /\ d2.enemyBans = d1.enemyBans
    /\ d2.targetRole = d1.targetRole

\* C29: the updater handlePredict passes to setDraft, applied to any draft
\* and any role index, empties allies[roleIndex] and changes nothing else;
\* a handlePredict step changes the draft in exactly this way when the
\* target role is filled and not at all otherwise.
C29_ClearUpdaterFrame ==
    /\ [](\A roleIndex \in 0..(NumSlots - 1) :
            OnlyRoleCleared(draft, ClearRoleUpdater(draft, roleIndex), roleIndex))
    /\ [][HandlePredict
          => LET roleIndex == RolePosition(draft.targetRole)
             IN IF draft.allies[roleIndex + 1] # Null
                THEN OnlyRoleCleared(draft, draft', roleIndex)
                ELSE draft' = draft]_vars

\* the MID slot was emptied by handlePredict while the TOP ally stayed
C29_Witness ==
    /\ setDraftCalls = 1
    /\ loading
    /\ draft.targetRole = "MID"
    /\ draft.allies[3] = Null
    /\ draft.allies[1] = "Ahri"

----------------------------------------------------------------------------
(* Specification of useRecommendations called without the button guard on *)
(* a freshly mounted page: handlePredict is called again while earlier     *)
(* calls are pending, the target role changes at any time, and              *)
(* champion.json, with its three champions, is fetched and read while      *)
(* calls are made.  The champion                                           *)
(* list is stored once and a call keeps the list it was made with, so a    *)
(* pending call that holds the initial, empty list was issued before every *)
(* call that has mapped names with a loaded list.                          *)

NextOverlap ==
    \/ Len(inflight) < MaxInflight /\ HandlePredict
    \/ TargetRoleStep
    \/ ChampionsEffect
    \/ ChampionsFetchResolves
    \/ \E data \in {b \in ChampionBodies :
                      /\ ~MappingThrows(b)
                      /\ MapChampions(ObjectValues(b.data)) = LoadedChampionList} :
           ChampionsJsonResolves(data)
    \/ FetchRejectsStep
    \/ FetchResolvesStep
    \/ TextSettlesStep
    \/ JsonRejectsStep
    \/ JsonResolvesStep

SpecOverlap == Init /\ [][NextOverlap]_vars

\* a step in which some pending call delivers recommendations
Delivers ==
    \E i \in 1..Len(inflight), data \in ResponseBodies :
        "recommendations" \in DOMAIN data /\ JsonResolves(i, data)

\* C26 as stated: a call made while others are pending adds its request and
\* leaves them in flight; loading becomes false when the first of the calls
\* settles; and when the last of overlapping calls settles (one call is
\* pending although loading is already false, and the step leaves none
\* pending), the recommendations stored are those this call delivers.
C26_LastSettledStored ==
    /\ [][HandlePredict
          => /\ Len(inflight') = Len(inflight) + 1
             /\ \A k \in 1..Len(inflight) : inflight'[k] = inflight[k]]_vars
    /\ [][Len(inflight') < Len(inflight) => loading' = FALSE]_vars
    /\ [][(Len(inflight) = 1 /\ ~loading /\ inflight' = <<>>) => Delivers]_vars

\* C26: a handlePredict call made while others are pending leaves them in
\* flight and adds its own request; whenever a call settles, loading becomes
\* false even if another call is still pending; a call that delivers
\* recommendations stores them whatever its position among the pending
\* calls, be it the one issued first or the one issued last; and a call
\* that settles by failing leaves the stored recommendations as they were
\* and sets the error.
C26_OverlappingCalls ==
    /\ [][HandlePredict
          => /\ Len(inflight') = Len(inflight) + 1
             /\ \A k \in 1..Len(inflight) : inflight'[k] = inflight[k]]_vars
    /\ [][Len(inflight') < Len(inflight) => loading' = FALSE]_vars
    /\ [][\A i \in 1..Len(inflight), data \in ResponseBodies :
            JsonResolves(i, data) /\ "recommendations" \in DOMAIN data
            => /\ recommendations' = MapRecommendations(data.recommendations,
                                                        inflight[i].championList)
               /\ inflight' = RemoveAt(inflight, i)]_vars
    /\ [][(Len(inflight') < Len(inflight) /\ ~Delivers)
          => /\ recommendations' = recommendations
             /\ error' = ErrorMessage]_vars

\* a call made before champion.json was read is still pending and about to
\* receive its response, while a call made after the list was stored has
\* already delivered its recommendations, MonkeyKing under its listed name
\* Wukong, and switched loading off
C26_Witness ==
    /\ Len(inflight) = 1
    /\ inflight[1].stage = "json"
    /\ inflight[1].championList = InitialChampionList
    /\ championList = LoadedChampionList
    /\ ~loading
    /\ \E k \in 1..Len(recommendations) :
          /\ recommendations[k].championId = "MonkeyKing"
          /\ recommendations[k].championName = "Wukong"

----------------------------------------------------------------------------
(* Specification of one handlePredict call and the draft edits made while *)
(* its request is pending: the page starts with at most one first slot     *)
(* filled, by Zed, so that Ahri can only enter the draft after the call     *)

InitPending ==
    /\ draft \in {InitialDraft} \cup
                 {SelectUpdater(InitialDraft, 0, destination, "Zed") :
                      destination \in Destinations}
    /\ selectorContext = NoContext
    /\ RecInit
    /\ championList = LoadedChampionList
    /\ championsReq = [stage |-> "done"]
    /\ RestIdle

NextPending ==
    \/ /\ inflight = <<>>
       /\ recommendations = InitialRecommendations
       /\ error = InitialError
       /\ HandlePredict
    \/ inflight # <<>> /\ SlotClickStep
    \/ inflight # <<>> /\ SelectStep
    \/ FetchRejectsStep
    \/ FetchResolvesStep
    \/ TextSettlesStep
    \/ JsonRejectsStep
    \/ \E i \in 1..Len(inflight), data \in ResponseBodies \ {[recommendations |-> <<>>]} :
           JsonResolves(i, data)

SpecPending == InitPending /\ [][NextPending]_vars

\* C27: the request body is built from the draft of the moment handlePredict
\* is called; no later step, draft edits included, changes the body of a
\* pending request; and the response is stored in full, mapped from the
\* response data alone, whatever the draft holds by then, without touching
\* the draft.
C27_RequestFromCapturedDraft ==
    /\ [][HandlePredict
          => LastBody(inflight') = PredictBody(draft, CurrentAllies(draft))]_vars
    /\ [][Len(inflight') = Len(inflight)
          => \A k \in 1..Len(inflight) : inflight'[k].body = inflight[k].body]_vars
    /\ [][\A i \in 1..Len(inflight), data \in ResponseBodies :
            JsonResolves(i, data) /\ "recommendations" \in DOMAIN data
            => /\ Len(recommendations') = Len(data.recommendations)
               /\ \A k \in 1..Len(data.recommendations) :
                      recommendations'[k].championId = data.recommendations[k].champion
               /\ draft' = draft]_vars

\* Ahri, picked for the enemy team and banned while the request was pending,
\* is among the stored recommendations
C27_Witness ==
    /\ inflight = <<>>
    /\ \E k \in 1..Len(recommendations) : recommendations[k].championId = "Ahri"
    /\ draft.enemies[1] = "Ahri"
    /\ draft.allyBans[1] = "Ahri"

====
